---- MODULE Spec2Model ----
(***************************************************************************)
(* Type inference of webml (src/ast/typing.rs): TyEnv, TypePool, the       *)
(* try_unify merge and the reification of the typed tree.  One run of      *)
(* TyEnv::trans is a state machine: the recursive descent of infer_ast is  *)
(* unfolded into a stack of pending steps, each step one action.           *)
(***************************************************************************)
EXTENDS Integers, Sequences, FiniteSets, TLC

VARIABLES
    prog,     \* the input of trans: the untyped tree (a sequence of statements)
    ast,      \* Core<NodeId>: the tree after typing_ast
    env,      \* TyEnv.env : Symbol -> NodeId
    pool,     \* TypePool.pool : the unification pool [parent, val]
    cache,    \* TypePool.cache : Typing -> NodeId
    id,       \* TypePool.id : the fresh variable counter
    inserts,  \* the calls of TyEnv::insert so far, in order: <<name, node>>
    stack,    \* the pending steps of the recursive descent, innermost first
    pc,       \* "new" | "infer" | "done"; "calls" (PoolSpec); "patterns" | "keyed" (KeySpec)
    result,   \* what trans returned (or that it never returned)
    typed,    \* TypedCore: the tree trans returned
    pats,     \* hir: the two patterns match_key is asked about
    keys      \* hir: the keys match_key returned for them

vars == <<prog, ast, env, pool, cache, id, inserts, stack, pc, result, typed, pats, keys>>

-----------------------------------------------------------------------------
(* Typing: the inference-time types, compound ones over NodeIds.           *)

Variable(n)   == [k |-> "Variable", n |-> n]
TInt          == [k |-> "Int"]
TReal         == [k |-> "Real"]
TFun(p, b)    == [k |-> "Fun", p |-> p, b |-> b]
TTuple(ts)    == [k |-> "Tuple", ts |-> ts]
TDatatype(s)  == [k |-> "Datatype", name |-> s]

(* Type: the surface types, compound ones over Types.  Same constructors,  *)
(* the components being Types instead of NodeIds.                          *)

(* A recursion that never returns (in the build: the stack overflows).     *)
Diverges == [k |-> "Diverges"]

MisMatch(t1, t2) == [kind |-> "MisMatch", expected |-> t1, actual |-> t2]
FreeVar          == [kind |-> "FreeVar"]

-----------------------------------------------------------------------------
(* UnificationPool<Typing>: a union-find store.  parent[i] = i for a class *)
(* representative; val[i] is meaningful on representatives.                *)

EmptyPool == [parent |-> <<>>, val |-> <<>>]

RECURSIVE Find(_, _)
Find(p, i) == IF p.parent[i] = i THEN i ELSE Find(p, p.parent[i])

value_of(p, i) == p.val[Find(p, i)]

pool_node_new(p, v) ==
    [parent |-> Append(p.parent, Len(p.parent) + 1), val |-> Append(p.val, v)]

NewId(p) == Len(p.parent) + 1

Roots(p) == {i \in 1..Len(p.parent) : p.parent[i] = i}

(* union of the classes of r1 and r2, the merged value v stored on the     *)
(* surviving representative                                                *)
Union(p, r1, r2, v) ==
    LET a == Find(p, r1)
        b == Find(p, r2)
    IN  [parent |-> [p.parent EXCEPT ![b] = a], val |-> [p.val EXCEPT ![a] = v]]

-----------------------------------------------------------------------------
(* resolve / conv_ty.  `path` holds the representatives whose value is     *)
(* being converted further up the recursion: the pool is not changed by    *)
(* resolve, so meeting one of them again means the recursion never ends.   *)

IsDiverges(t) == t.k = "Diverges"

FunType(param, body) ==
    IF IsDiverges(param) \/ IsDiverges(body) THEN Diverges ELSE TFun(param, body)

TupleType(tys) ==
    IF \E j \in 1..Len(tys) : IsDiverges(tys[j]) THEN Diverges ELSE TTuple(tys)

RECURSIVE conv_ty(_, _, _)
RECURSIVE resolve(_, _, _)
RECURSIVE ResolveRoot(_, _, _)

ResolveRoot(p, r, path) ==
    IF r \in path THEN Diverges ELSE conv_ty(p, p.val[r], path \cup {r})

resolve(p, i, path) == ResolveRoot(p, Find(p, i), path)

conv_ty(p, ty, path) ==
    CASE ty.k = "Variable" -> ty
      [] ty.k = "Int"      -> TInt
      [] ty.k = "Real"     -> TReal
      [] ty.k = "Fun"      -> FunType(resolve(p, ty.p, path), resolve(p, ty.b, path))
      [] ty.k = "Tuple"    ->
            TupleType([j \in 1..Len(ty.ts) |-> resolve(p, ty.ts[j], path)])
      [] ty.k = "Datatype" -> ty

Resolve(p, i) == resolve(p, i, {})

-----------------------------------------------------------------------------
(* try_unify and UnificationPool::try_unify_with, mutually recursive.      *)
(* Results: [st |-> "ok", pool, x] with x the merged Typing (try_unify) or *)
(* the representative (try_unify_with); [st |-> "err", pool, x] with x the *)
(* TypeError; [st |-> "overflow", pool].  A nested call between the same   *)
(* two representatives with no union done in between repeats forever:      *)
(* `path` holds <<r1, r2, number of classes>> of the calls in progress.    *)

Ok(p, x)     == [st |-> "ok", pool |-> p, x |-> x]
Err(p, e)    == [st |-> "err", pool |-> p, x |-> e]
Overflow(p)  == [st |-> "overflow", pool |-> p, x |-> Diverges]

MisMatchErr(p, e, a) ==
    IF IsDiverges(e) \/ IsDiverges(a) THEN Overflow(p) ELSE Err(p, MisMatch(e, a))

(* a slip: expected and actual exchanged *)
MisMatchSwapped(p, t1, t2) == MisMatchErr(p, conv_ty(p, t2, {}), conv_ty(p, t1, {}))

MisMatchOf(p, t1, t2) == MisMatchErr(p, conv_ty(p, t1, {}), conv_ty(p, t2, {}))

(* the `?` operator: continue with F on success, return the failure as is  *)
PTry(r, F(_)) == IF r.st # "ok" THEN r ELSE F(r)

RECURSIVE try_unify(_, _, _, _)
RECURSIVE try_unify_with(_, _, _, _)
RECURSIVE UnifyRoots(_, _, _, _)
RECURSIVE UnifyEach(_, _, _, _, _, _)

(* try_unify_with on the two representatives *)
UnifyRoots(p, r1, r2, path) ==
    IF r1 = r2 THEN Ok(p, r1)
    ELSE IF <<r1, r2, Cardinality(Roots(p))>> \in path THEN Overflow(p)
    ELSE PTry(try_unify(p, p.val[r1], p.val[r2],
                        path \cup {<<r1, r2, Cardinality(Roots(p))>>}),
              LAMBDA m : Ok(Union(m.pool, r1, r2, m.x), Find(m.pool, r1)))

try_unify_with(p, id1, id2, path) == UnifyRoots(p, Find(p, id1), Find(p, id2), path)

(* the pairwise unification of two tuples' components from index j on,     *)
(* stopping at the first error                                             *)
UnifyEach(p, tu1, tu2, j, acc, path) ==
    IF j > Len(tu1) THEN Ok(p, acc)
    ELSE PTry(try_unify_with(p, tu1[j], tu2[j], path),
              LAMBDA u : UnifyEach(u.pool, tu1, tu2, j + 1, Append(acc, u.x), path))

(* a slip: against a Variable on the right the Variable is returned, not  *)
(* the other type                                                          *)
TryUnifyKeepsVariable(p, t1, t2, path) ==
    IF t1 = t2 THEN Ok(p, t1)
    ELSE IF t1.k = "Variable" THEN Ok(p, t2)
    ELSE IF t2.k = "Variable" THEN Ok(p, t2)
    ELSE IF t1.k = "Fun" /\ t2.k = "Fun" THEN
        PTry(try_unify_with(p, t1.p, t2.p, path), LAMBDA pr :
        PTry(try_unify_with(pr.pool, t1.b, t2.b, path), LAMBDA br :
        Ok(br.pool, TFun(pr.x, br.x))))
    ELSE IF t1.k = "Tuple" /\ t2.k = "Tuple" THEN
        IF Len(t1.ts) # Len(t2.ts) THEN MisMatchOf(p, t1, t2)
        ELSE PTry(UnifyEach(p, t1.ts, t2.ts, 1, <<>>, path),
                  LAMBDA u : Ok(u.pool, TTuple(u.x)))
    ELSE MisMatchOf(p, t1, t2)

try_unify(p, t1, t2, path) ==
    IF t1 = t2 THEN Ok(p, t1)
    ELSE IF t1.k = "Variable" THEN Ok(p, t2)
    ELSE IF t2.k = "Variable" THEN Ok(p, t1)
    ELSE IF t1.k = "Fun" /\ t2.k = "Fun" THEN
        PTry(try_unify_with(p, t1.p, t2.p, path), LAMBDA pr :
        PTry(try_unify_with(pr.pool, t1.b, t2.b, path), LAMBDA br :
        Ok(br.pool, TFun(pr.x, br.x))))
    ELSE IF t1.k = "Tuple" /\ t2.k = "Tuple" THEN
        IF Len(t1.ts) # Len(t2.ts) THEN MisMatchOf(p, t1, t2)
        ELSE PTry(UnifyEach(p, t1.ts, t2.ts, 1, <<>>, path),
                  LAMBDA u : Ok(u.pool, TTuple(u.x)))
    ELSE MisMatchOf(p, t1, t2)

-----------------------------------------------------------------------------
(* The symbol table handed to trans (ast::SymbolTable): datatypes with     *)
(* their constructors and optional payload types.                          *)

None == [k |-> "None"]

SymTab ==
    <<[name |-> "bool", constructors |-> <<[name |-> "true",  arg |-> None],
                                           [name |-> "false", arg |-> None]>>],
      [name |-> "t",    constructors |-> <<[name |-> "A", arg |-> None],
                                           [name |-> "B", arg |-> TInt],
                                           [name |-> "P", arg |-> TTuple(<<TInt, TReal>>)]>>]>>

Constructors ==
    {c \in UNION {{[name |-> SymTab[i].constructors[j].name,
                    arg  |-> SymTab[i].constructors[j].arg,
                    of   |-> SymTab[i].name] : j \in 1..Len(SymTab[i].constructors)}
                  : i \in 1..Len(SymTab)} : TRUE}

IsConstructor(c) == \E x \in Constructors : x.name = c

get_datatype_of_constructor(c) ==
    IF IsConstructor(c) THEN (CHOOSE x \in Constructors : x.name = c).of ELSE "?"

get_argtype_of_constructor(c) ==
    IF IsConstructor(c) THEN (CHOOSE x \in Constructors : x.name = c).arg ELSE None

-----------------------------------------------------------------------------
(* TyEnv with its TypePool, as one record te = [env, pool, cache, id, ins] *)
(* (ins: the log of insert calls).  An operation that can fail returns     *)
(* [st, te, x]: st = "ok" | "err" (x the TypeError) | "overflow".          *)

TOk(te)        == [st |-> "ok", te |-> te, x |-> None]
TErr(te, e)    == [st |-> "err", te |-> te, x |-> e]
Panic          == [kind |-> "Panic"]

(* the `?` operator: continue with F on success, return the failure as is  *)
Try(r, F(_)) == IF r.st # "ok" THEN r ELSE F(r.te)

node_new(te, t) ==
    [te EXCEPT !.pool  = pool_node_new(@, t),
               !.cache = IF t.k \in {"Int", "Real", "Datatype"}
                         THEN (t :> NewId(te.pool)) @@ @ ELSE @]

ty(te, t) == [te EXCEPT !.pool = pool_node_new(@, t)]

tyvar(te) == [te EXCEPT !.pool = pool_node_new(@, Variable(te.id)), !.id = @ + 1]

ty_int(te)  == te.cache[TInt]
ty_real(te) == te.cache[TReal]
ty_bool(te) == te.cache[TDatatype("bool")]

get(te, name) == IF name \in DOMAIN te.env THEN te.env[name] ELSE 0

insert(te, name, v) ==
    [te EXCEPT !.env = (name :> v) @@ @, !.ins = Append(@, <<name, v>>)]

RECURSIVE InsertAll(_, _)
InsertAll(te, names) ==
    IF names = <<>> THEN te
    ELSE InsertAll(insert(te, Head(names)[1], Head(names)[2]), Tail(names))

(* the outcome u of the pool's try_unify_with as an outcome of TyEnv       *)
Lift(te, u) ==
    [st |-> u.st, te |-> [te EXCEPT !.pool = u.pool],
     x |-> IF u.st = "ok" THEN None ELSE u.x]

unify(te, id1, id2) == Lift(te, try_unify_with(te.pool, id1, id2, {}))

give(te, id1, t) == unify(node_new(te, t), id1, NewId(te.pool))

(* convert: Type -> Typing, a pool node for every component of a compound  *)
(* type.  Returns [te, t].                                                 *)
RECURSIVE convert(_, _)
RECURSIVE ConvertEach(_, _, _, _)
ConvertEach(te, tys, j, acc) ==
    IF j > Len(tys) THEN [te |-> te, t |-> TTuple(acc)]
    ELSE LET c == convert(te, tys[j])
         IN  ConvertEach(ty(c.te, c.t), tys, j + 1, Append(acc, NewId(c.te.pool)))

convert(te, t) ==
    CASE t.k \in {"Variable", "Int", "Real", "Datatype"} -> [te |-> te, t |-> t]
      [] t.k = "Fun" ->
            LET a  == convert(te, t.p)
                r  == convert(a.te, t.b)
                t1 == ty(r.te, a.t)
                t2 == ty(t1, r.t)
            IN  [te |-> t2, t |-> TFun(NewId(r.te.pool), NewId(t1.pool))]
      [] t.k = "Tuple" -> ConvertEach(te, t.ts, 1, <<>>)

(* unify(id, <a fresh node of the converted payload type>)                 *)
UnifyWithConverted(c, i) == unify(ty(c.te, c.t), i, NewId(c.te.pool))

UnifyWithType(te, i, t) == UnifyWithConverted(convert(te, t), i)

-----------------------------------------------------------------------------
(* The tree (ast::Core<Ty>).  Every node is a record with its variant in   *)
(* k; a type slot is the field ty: 0 in the untyped tree, a NodeId after   *)
(* typing_ast, a Type in the tree trans returns.                           *)

\* statements
Datatype(name)           == [k |-> "Datatype", name |-> name]
Val(rec, pattern, expr)  == [k |-> "Val", rec |-> rec, pattern |-> pattern, expr |-> expr]
Fun(name, params, expr)  == [k |-> "Fun", name |-> name, params |-> params, expr |-> expr]
\* expressions
Binds(binds, ret)        == [k |-> "Binds", ty |-> 0, binds |-> binds, ret |-> ret]
BinOp(op, l, r)          == [k |-> "BinOp", ty |-> 0, op |-> op, l |-> l, r |-> r]
Fn(param, body)          == [k |-> "Fn", ty |-> 0, param |-> param, body |-> body]
App(fun, arg)            == [k |-> "App", ty |-> 0, fun |-> fun, arg |-> arg]
Case(cond, clauses)      == [k |-> "Case", ty |-> 0, cond |-> cond, clauses |-> clauses]
Clause(pat, expr)        == [k |-> "Clause", pat |-> pat, expr |-> expr]
Tuple(tuple)             == [k |-> "Tuple", ty |-> 0, tuple |-> tuple]
Symbol(name)             == [k |-> "Symbol", ty |-> 0, name |-> name]
Constructor(name, arg)   == [k |-> "Constructor", ty |-> 0, name |-> name, arg |-> arg]
Literal(value)           == [k |-> "Literal", ty |-> 0, value |-> value]
\* patterns
PConstant(value)         == [k |-> "PConstant", ty |-> 0, value |-> value]
PConstructor(name, arg)  == [k |-> "PConstructor", ty |-> 0, name |-> name, arg |-> arg]
PTuple(tuple)            == [k |-> "PTuple", ty |-> 0, tuple |-> tuple]
PVariable(name)          == [k |-> "PVariable", ty |-> 0, name |-> name]
PWildcard                == [k |-> "PWildcard", ty |-> 0]

(* map_ty with f = |_| the next fresh node: the slots are numbered in the  *)
(* order map_ty calls f.  MapFresh(x, n) = [t: x with its slots numbered   *)
(* from n on, n: the next free number].                                    *)
RECURSIVE MapFresh(_, _)
RECURSIVE MapFreshSeq(_, _)

MapFreshSeq(xs, n) ==
    IF xs = <<>> THEN [t |-> <<>>, n |-> n]
    ELSE LET h == MapFresh(Head(xs), n)
             r == MapFreshSeq(Tail(xs), h.n)
         IN  [t |-> <<h.t>> \o r.t, n |-> r.n]

MapFresh(x, n) ==
    CASE x.k \in {"None", "Datatype"} -> [t |-> x, n |-> n]
      [] x.k = "Fun" ->
            LET ps == MapFreshSeq(x.params, n)
                e  == MapFresh(x.expr, ps.n)
            IN  [t |-> [x EXCEPT !.params = ps.t, !.expr = e.t], n |-> e.n]
      [] x.k = "Val" ->
            LET pt == MapFresh(x.pattern, n)
                e  == MapFresh(x.expr, pt.n)
            IN  [t |-> [x EXCEPT !.pattern = pt.t, !.expr = e.t], n |-> e.n]
      [] x.k = "Binds" ->
            LET bs == MapFreshSeq(x.binds, n + 1)
                r  == MapFresh(x.ret, bs.n)
            IN  [t |-> [x EXCEPT !.ty = n, !.binds = bs.t, !.ret = r.t], n |-> r.n]
      [] x.k = "BinOp" ->
            LET l == MapFresh(x.l, n + 1)
                r == MapFresh(x.r, l.n)
            IN  [t |-> [x EXCEPT !.ty = n, !.l = l.t, !.r = r.t], n |-> r.n]
      [] x.k = "Fn" ->
            LET b == MapFresh(x.body, n + 1)
            IN  [t |-> [x EXCEPT !.ty = n, !.body = b.t], n |-> b.n]
      [] x.k = "App" ->
            LET f == MapFresh(x.fun, n + 1)
                a == MapFresh(x.arg, f.n)
            IN  [t |-> [x EXCEPT !.ty = n, !.fun = f.t, !.arg = a.t], n |-> a.n]
      [] x.k = "Case" ->
            LET c  == MapFresh(x.cond, n + 1)
                cs == MapFreshSeq(x.clauses, c.n)
            IN  [t |-> [x EXCEPT !.ty = n, !.cond = c.t, !.clauses = cs.t], n |-> cs.n]
      [] x.k = "Clause" ->
            LET pt == MapFresh(x.pat, n)
                e  == MapFresh(x.expr, pt.n)
            IN  [t |-> [x EXCEPT !.pat = pt.t, !.expr = e.t], n |-> e.n]
      [] x.k = "Tuple" ->
            LET ts == MapFreshSeq(x.tuple, n + 1)
            IN  [t |-> [x EXCEPT !.ty = n, !.tuple = ts.t], n |-> ts.n]
      [] x.k \in {"Symbol", "Literal", "PConstant", "PVariable", "PWildcard"} ->
            [t |-> [x EXCEPT !.ty = n], n |-> n + 1]
      [] x.k = "Constructor" ->
            LET a == MapFresh(x.arg, n + 1)
            IN  [t |-> [x EXCEPT !.ty = n, !.arg = a.t], n |-> a.n]
      [] x.k = "PConstructor" ->
            LET a == MapFresh(x.arg, n)
            IN  [t |-> [x EXCEPT !.arg = a.t, !.ty = a.n], n |-> a.n + 1]
      [] x.k = "PTuple" ->
            LET ts == MapFreshSeq(x.tuple, n)
            IN  [t |-> [x EXCEPT !.tuple = ts.t, !.ty = ts.n], n |-> ts.n + 1]

(* the children of a node, for the walks below *)
Children(x) ==
    CASE x.k \in {"None", "Datatype", "Symbol", "Literal", "PConstant",
                  "PVariable", "PWildcard"} -> <<>>
      [] x.k = "Fun"          -> x.params \o <<x.expr>>
      [] x.k = "Val"          -> <<x.pattern, x.expr>>
      [] x.k = "Binds"        -> x.binds \o <<x.ret>>
      [] x.k = "BinOp"        -> <<x.l, x.r>>
      [] x.k = "Fn"           -> <<x.body>>
      [] x.k = "App"          -> <<x.fun, x.arg>>
      [] x.k = "Case"         -> <<x.cond>> \o x.clauses
      [] x.k = "Clause"       -> <<x.pat, x.expr>>
      [] x.k = "Tuple"        -> x.tuple
      [] x.k = "Constructor"  -> <<x.arg>>
      [] x.k = "PConstructor" -> <<x.arg>>
      [] x.k = "PTuple"       -> x.tuple

(* the nodes of a tree, the tree itself included; of a list of trees       *)
RECURSIVE Nodes(_)
Nodes(x) == {x} \cup UNION {Nodes(Children(x)[j]) : j \in 1..Len(Children(x))}

NodesOf(xs) == UNION {Nodes(xs[j]) : j \in 1..Len(xs)}

(* the type slots of a list of trees *)
Slots(xs) == {x.ty : x \in {y \in NodesOf(xs) : "ty" \in DOMAIN y}}

(* map_ty with f = resolve: every slot replaced by its reified Type        *)
RECURSIVE MapResolve(_, _)
MapResolve(p, x) ==
    LET M(y)   == MapResolve(p, y)
        MS(ys) == [j \in 1..Len(ys) |-> MapResolve(p, ys[j])]
        T(y)   == IF "ty" \in DOMAIN y THEN [y EXCEPT !.ty = Resolve(p, y.ty)] ELSE y
    IN  CASE x.k \in {"None", "Datatype", "Symbol", "Literal", "PConstant",
                      "PVariable", "PWildcard"} -> T(x)
          [] x.k = "Fun"          -> [x EXCEPT !.params = MS(@), !.expr = M(@)]
          [] x.k = "Val"          -> [x EXCEPT !.pattern = M(@), !.expr = M(@)]
          [] x.k = "Binds"        -> [T(x) EXCEPT !.binds = MS(@), !.ret = M(@)]
          [] x.k = "BinOp"        -> [T(x) EXCEPT !.l = M(@), !.r = M(@)]
          [] x.k = "Fn"           -> [T(x) EXCEPT !.body = M(@)]
          [] x.k = "App"          -> [T(x) EXCEPT !.fun = M(@), !.arg = M(@)]
          [] x.k = "Case"         -> [T(x) EXCEPT !.cond = M(@), !.clauses = MS(@)]
          [] x.k = "Clause"       -> [x EXCEPT !.pat = M(@), !.expr = M(@)]
          [] x.k = "Tuple"        -> [T(x) EXCEPT !.tuple = MS(@)]
          [] x.k = "Constructor"  -> [T(x) EXCEPT !.arg = M(@)]
          [] x.k = "PConstructor" -> [T(x) EXCEPT !.arg = M(@)]
          [] x.k = "PTuple"       -> [T(x) EXCEPT !.tuple = MS(@)]

(* Pattern::binds: the (name, slot) pairs a pattern brings into scope      *)
RECURSIVE binds(_)
RECURSIVE BindsSeq(_)
BindsSeq(ps) == IF ps = <<>> THEN <<>> ELSE binds(Head(ps)) \o BindsSeq(Tail(ps))
binds(pat) ==
    CASE pat.k \in {"None", "PConstant", "PWildcard"} -> <<>>
      [] pat.k = "PVariable"    -> <<<<pat.name, pat.ty>>>>
      [] pat.k = "PTuple"       -> BindsSeq(pat.tuple)
      [] pat.k = "PConstructor" -> binds(pat.arg)

-----------------------------------------------------------------------------
(* The leaf rules of TyEnv: they finish within one call.                   *)

infer_symbol(te, sym, given) ==
    IF sym \in DOMAIN te.env THEN unify(te, get(te, sym), given)
    ELSE TErr(te, FreeVar)

infer_literal(te, lit, given) ==
    unify(te, given, IF lit = "Int" THEN ty_int(te) ELSE ty_real(te))

infer_constant(te, given) == unify(te, given, ty_int(te))

infer_pat(te, pat) ==
    Try(CASE pat.k = "PConstant" -> infer_constant(te, pat.ty)
          [] pat.k = "PConstructor" ->
               IF ~IsConstructor(pat.name) THEN TErr(te, Panic)
               ELSE Try(give(te, pat.ty,
                             TDatatype(get_datatype_of_constructor(pat.name))),
                        LAMBDA t1 :
                          IF pat.arg.k = "None" THEN TOk(t1)
                          ELSE IF get_argtype_of_constructor(pat.name).k = "None"
                               THEN TErr(t1, Panic)
                               ELSE UnifyWithType(t1, pat.arg.ty,
                                        get_argtype_of_constructor(pat.name)))
          [] pat.k = "PTuple" ->
               unify(ty(te, TTuple([j \in 1..Len(pat.tuple) |-> pat.tuple[j].ty])),
                     pat.ty, NewId(te.pool))
          [] OTHER -> TOk(te),
        LAMBDA t1 : TOk(InsertAll(t1, binds(pat))))

RECURSIVE InferPats(_, _)
InferPats(te, params) ==
    IF params = <<>> THEN TOk(te)
    ELSE Try(infer_pat(te, Head(params)), LAMBDA t1 : InferPats(t1, Tail(params)))

(* params.rev().fold(body_ty, |body_ty, param_ty| pool.ty(Fun(param_ty, body_ty))):  *)
(* [te, t] with t the node of the function type                            *)
RECURSIVE FoldFunTy(_, _, _)
FoldFunTy(te, params, body_ty) ==
    IF params = <<>> THEN [te |-> te, t |-> body_ty]
    ELSE LET last == params[Len(params)]
         IN  FoldFunTy(ty(te, TFun(last.ty, body_ty)),
                       SubSeq(params, 1, Len(params) - 1), NewId(te.pool))

(* the function type of a Fun statement bound to its name                  *)
InsertFunTy(f, name) == insert(f.te, name, f.t)

(* unify(l, int).or_else(|_| unify(l, real)) *)
OrElseUnify(first, l, real) ==
    IF first.st = "err" THEN unify(first.te, l, real) ELSE first

(* a slip: the fallback to Real left out *)
UnifyIntOnly(te, l, int, real) == unify(te, l, int)

UnifyIntOrElseReal(te, l, int, real) == OrElseUnify(unify(te, l, int), l, real)

-----------------------------------------------------------------------------
(* The steps of the recursive descent.                                     *)

StmtStep(x)  == [op |-> "stmt", x |-> x]
ExprStep(x)  == [op |-> "expr", x |-> x]
UnifyStep(a, b) == [op |-> "unify", a |-> a, b |-> b]
GiveStep(a, t)  == [op |-> "give", a |-> a, t |-> t]

RECURSIVE Flatten(_)
Flatten(ss) == IF ss = <<>> THEN <<>> ELSE Head(ss) \o Flatten(Tail(ss))

TE == [env |-> env, pool |-> pool, cache |-> cache, id |-> id, ins |-> inserts]

Top == stack[1]
Running(op) == pc = "infer" /\ stack # <<>> /\ Top.op = op
At(op, k) == Running(op) /\ Top.x.k = k

ArithOps == {"+", "-", "*"}
CmpOps   == {"=", "<>", ">", ">=", "<", "<="}
DivOps   == {"div", "mod"}
DivfOps  == {"/"}

StackOverflow == [kind |-> "StackOverflow"]
Success       == [kind |-> "Ok"]
Pending       == [kind |-> "Pending"]

(* the state after a step with outcome r; on success the step is replaced  *)
(* by the steps `next`, on failure trans is over                           *)
Commit(r, next) ==
    /\ env' = r.te.env
    /\ pool' = r.te.pool
    /\ cache' = r.te.cache
    /\ id' = r.te.id
    /\ inserts' = r.te.ins
    /\ IF r.st = "ok"
       THEN /\ stack' = next \o Tail(stack)
            /\ UNCHANGED <<pc, result>>
       ELSE /\ stack' = <<>>
            /\ pc' = "done"
            /\ result' = IF r.st = "err" THEN r.x ELSE StackOverflow
    /\ UNCHANGED <<prog, ast, typed, pats, keys>>

-----------------------------------------------------------------------------
(* infer_statement *)

InferDatatype ==
    /\ At("stmt", "Datatype")
    /\ Commit(TOk(TE), <<>>)

(* Val: the bindings before expr when rec; then expr                       *)
InferVal ==
    /\ At("stmt", "Val")
    /\ LET x     == Top.x
           names == binds(x.pattern)
       IN  Commit(TOk(IF x.rec THEN InsertAll(TE, names) ELSE TE),
                  <<ExprStep(x.expr), [op |-> "val_rest", x |-> x]>>)

(* Val, after expr: infer_pat, unify(expr.ty, pattern.ty), the bindings    *)
(* when not rec                                                            *)
ValRest ==
    /\ Running("val_rest")
    /\ LET x == Top.x
       IN  Commit(Try(infer_pat(TE, x.pattern), LAMBDA t1 :
                  Try(unify(t1, x.expr.ty, x.pattern.ty), LAMBDA t2 :
                  TOk(IF ~x.rec THEN InsertAll(t2, binds(x.pattern)) ELSE t2))), <<>>)

InferFun ==
    /\ At("stmt", "Fun")
    /\ LET x == Top.x
       IN  Commit(Try(InferPats(TE, x.params), LAMBDA t1 :
                  TOk(InsertFunTy(FoldFunTy(InsertAll(t1, BindsSeq(x.params)),
                                            x.params, x.expr.ty), x.name))),
                  <<ExprStep(x.expr)>>)

-----------------------------------------------------------------------------
(* infer_expr *)

InferBinds ==
    /\ At("expr", "Binds")
    /\ LET x == Top.x
       IN  Commit(TOk(TE), [j \in 1..Len(x.binds) |-> StmtStep(x.binds[j])]
                           \o <<UnifyStep(x.ret.ty, x.ty), ExprStep(x.ret)>>)

InferArith ==
    /\ At("expr", "BinOp") /\ Top.x.op \in ArithOps
    /\ LET x == Top.x
       IN  Commit(TOk(TE), <<ExprStep(x.l), ExprStep(x.r),
                             [op |-> "arith_rest", x |-> x,
                              int |-> ty_int(TE), real |-> ty_real(TE)]>>)

ArithRest ==
    /\ Running("arith_rest")
    /\ LET x == Top.x
       IN  Commit(Try(unify(TE, x.l.ty, x.r.ty), LAMBDA t1 :
                  Try(UnifyIntOrElseReal(t1, x.l.ty, Top.int, Top.real), LAMBDA t2 :
                  unify(t2, x.ty, x.l.ty))), <<>>)

InferCmp ==
    /\ At("expr", "BinOp") /\ Top.x.op \in CmpOps
    /\ LET x == Top.x
       IN  Commit(TOk(TE), <<ExprStep(x.l), ExprStep(x.r),
                             [op |-> "cmp_rest", x |-> x, int |-> ty_int(TE),
                              real |-> ty_real(TE), bool |-> ty_bool(TE)]>>)

CmpRest ==
    /\ Running("cmp_rest")
    /\ LET x == Top.x
       IN  Commit(Try(unify(TE, x.l.ty, x.r.ty), LAMBDA t1 :
                  Try(UnifyIntOrElseReal(t1, x.l.ty, Top.int, Top.real), LAMBDA t2 :
                  unify(t2, x.ty, Top.bool))), <<>>)

InferDivMod ==
    /\ At("expr", "BinOp") /\ Top.x.op \in DivOps
    /\ LET x == Top.x
       IN  Commit(Try(unify(TE, x.l.ty, ty_int(TE)), LAMBDA t1 :
                  Try(unify(t1, x.r.ty, ty_int(TE)), LAMBDA t2 :
                  unify(t2, x.ty, ty_int(TE)))),
                  <<ExprStep(x.l), ExprStep(x.r)>>)

InferDivf ==
    /\ At("expr", "BinOp") /\ Top.x.op \in DivfOps
    /\ LET x == Top.x
       IN  Commit(Try(unify(TE, x.l.ty, ty_real(TE)), LAMBDA t1 :
                  Try(unify(t1, x.r.ty, ty_real(TE)), LAMBDA t2 :
                  unify(t2, x.ty, ty_real(TE)))),
                  <<ExprStep(x.l), ExprStep(x.r)>>)

InferFn ==
    /\ At("expr", "Fn")
    /\ LET x        == Top.x
           param_ty == NewId(pool)
       IN  Commit(TOk(insert(tyvar(TE), x.param, param_ty)),
                  <<ExprStep(x.body), GiveStep(x.ty, TFun(param_ty, x.body.ty))>>)

(* a slip: the argument and the result exchanged in the function type     *)
InferAppSwapped ==
    /\ At("expr", "App")
    /\ LET x == Top.x
       IN  Commit(TOk(TE), <<ExprStep(x.fun), ExprStep(x.arg),
                             GiveStep(x.fun.ty, TFun(x.ty, x.arg.ty))>>)

InferApp ==
    /\ At("expr", "App")
    /\ LET x == Top.x
       IN  Commit(TOk(TE), <<ExprStep(x.fun), ExprStep(x.arg),
                             GiveStep(x.fun.ty, TFun(x.arg.ty, x.ty))>>)

InferCase ==
    /\ At("expr", "Case")
    /\ LET x == Top.x
       IN  Commit(TOk(TE),
                  <<ExprStep(x.cond)>> \o
                  Flatten([j \in 1..Len(x.clauses) |->
                      <<[op |-> "clause", pat |-> x.clauses[j].pat, cond |-> x.cond.ty],
                        ExprStep(x.clauses[j].expr),
                        UnifyStep(x.clauses[j].expr.ty, x.ty)>>]))

(* one clause of a Case: infer_pat(pat), unify(pat.ty, cond.ty)            *)
InferClause ==
    /\ Running("clause")
    /\ Commit(Try(infer_pat(TE, Top.pat), LAMBDA t1 :
              unify(t1, Top.pat.ty, Top.cond)), <<>>)

RECURSIVE TyVars(_, _)
TyVars(te, n) == IF n = 0 THEN te ELSE TyVars(tyvar(te), n - 1)

InferTuple ==
    /\ At("expr", "Tuple")
    /\ LET x   == Top.x
           n   == Len(x.tuple)
           tys == [j \in 1..n |-> NewId(pool) + j - 1]
       IN  Commit(TOk(TyVars(TE, n)),
                  Flatten([j \in 1..n |-> <<ExprStep(x.tuple[j]),
                                            UnifyStep(x.tuple[j].ty, tys[j])>>])
                  \o <<[op |-> "tuple_rest", tys |-> tys, given |-> x.ty]>>)

TupleRest ==
    /\ Running("tuple_rest")
    /\ Commit(unify(ty(TE, TTuple(Top.tys)), NewId(pool), Top.given), <<>>)

InferConstructor ==
    /\ At("expr", "Constructor")
    /\ LET x      == Top.x
           arg_ty == get_argtype_of_constructor(x.name)
       IN  IF x.name \notin DOMAIN env THEN Commit(TErr(TE, FreeVar), <<>>)
           ELSE Commit(unify(TE, get(TE, x.name), x.ty),
                       IF x.arg.k # "None" /\ arg_ty.k # "None"
                       THEN <<ExprStep(x.arg),
                              [op |-> "ctor_arg", a |-> x.arg.ty, t |-> arg_ty]>>
                       ELSE <<>>)

ConstructorArg ==
    /\ Running("ctor_arg")
    /\ Commit(UnifyWithType(TE, Top.a, Top.t), <<>>)

InferSymbol ==
    /\ At("expr", "Symbol")
    /\ Commit(infer_symbol(TE, Top.x.name, Top.x.ty), <<>>)

InferLiteral ==
    /\ At("expr", "Literal")
    /\ Commit(infer_literal(TE, Top.x.value, Top.x.ty), <<>>)

Unify ==
    /\ Running("unify")
    /\ Commit(unify(TE, Top.a, Top.b), <<>>)

Give ==
    /\ Running("give")
    /\ Commit(give(TE, Top.a, Top.t), <<>>)

-----------------------------------------------------------------------------
(* TyEnv::new, TyEnv::init, trans *)

TyEnvNew ==
    LET p0 == [env |-> <<>>, pool |-> EmptyPool, cache |-> <<>>, id |-> 0, ins |-> <<>>]
        p1 == node_new(node_new(p0, TInt), TReal)
        p2 == ty(p1, TTuple(<<>>))
        p3 == ty(p2, TFun(ty_int(p1), NewId(p1.pool)))
    IN  insert(p3, "print", NewId(p2.pool))

RECURSIVE FeedTypes(_, _)
FeedTypes(te, j) ==
    IF j > Len(SymTab) THEN te
    ELSE FeedTypes(node_new(te, TDatatype(SymTab[j].name)), j + 1)

RECURSIVE InitConstructors(_, _, _)
InitConstructors(te, i, j) ==
    IF i > Len(SymTab) THEN te
    ELSE IF j > Len(SymTab[i].constructors) THEN InitConstructors(te, i + 1, 1)
    ELSE LET c == convert(te, TDatatype(SymTab[i].name))
         IN  InitConstructors(insert(ty(c.te, c.t), SymTab[i].constructors[j].name,
                                     NewId(c.te.pool)), i, j + 1)

TyEnvInit(te) == InitConstructors(FeedTypes(te, 1), 1, 1)

(* trans, up to the walk: init(symbol_table), typing_ast                   *)
TransStart ==
    /\ pc = "new"
    /\ LET te == TyEnvInit(TE)
           m  == MapFreshSeq(prog, NewId(te.pool))
           t2 == TyVars(te, m.n - NewId(te.pool))
       IN  /\ ast' = m.t
           /\ env' = t2.env /\ pool' = t2.pool /\ cache' = t2.cache
           /\ id' = t2.id /\ inserts' = t2.ins
           /\ stack' = [j \in 1..Len(m.t) |-> StmtStep(m.t[j])]
    /\ pc' = "infer"
    /\ UNCHANGED <<prog, result, typed, pats, keys>>

(* trans, after the walk: typed_ast, Ok                                    *)
TypedAst ==
    /\ pc = "infer" /\ stack = <<>>
    /\ LET t == [j \in 1..Len(ast) |-> MapResolve(pool, ast[j])]
       IN  IF \E i \in Slots(ast) : Resolve(pool, i).k = "Diverges"
           THEN result' = StackOverflow /\ typed' = <<>>
           ELSE result' = Success /\ typed' = t
    /\ pc' = "done"
    /\ UNCHANGED <<prog, ast, env, pool, cache, id, inserts, stack, pats, keys>>

-----------------------------------------------------------------------------
(* The inputs of trans.                                                    *)

LitInt  == Literal("Int")
LitReal == Literal("Real")

Operand(o) ==
    CASE o = "int"  -> LitInt
      [] o = "real" -> LitReal
      [] o = "i"    -> Symbol("i")
      [] o = "r"    -> Symbol("r")

Operands == {"int", "real", "i", "r"}

(* val i = 1  val r = 1.0  val z = l op r, for every operator and every    *)
(* pair of ground operands                                                 *)
BinOpProg(op, l, r) ==
    <<Val(FALSE, PVariable("i"), LitInt), Val(FALSE, PVariable("r"), LitReal),
      Val(FALSE, PVariable("z"), BinOp(op, Operand(l), Operand(r)))>>

BinOpProgs ==
    {BinOpProg(op, l, r) : op \in ArithOps \cup CmpOps \cup DivOps \cup DivfOps,
                           l \in Operands, r \in Operands}

\* val f = fn x => fn y => x + y + 1.0
ProgAddXY ==
    <<Val(FALSE, PVariable("f"),
          Fn("x", Fn("y", BinOp("+", BinOp("+", Symbol("x"), Symbol("y")), LitReal))))>>

\* val f = fn x => x x
ProgSelfApp == <<Val(FALSE, PVariable("f"), Fn("x", App(Symbol("x"), Symbol("x"))))>>

\* val rec fact = fn n => case n = 0 of true => 1 | false => n * fact (n - 1)
ProgFact ==
    <<Val(TRUE, PVariable("fact"),
          Fn("n", Case(BinOp("=", Symbol("n"), LitInt),
                       <<Clause(PConstructor("true", None), LitInt),
                         Clause(PConstructor("false", None),
                                BinOp("*", Symbol("n"),
                                      App(Symbol("fact"),
                                          BinOp("-", Symbol("n"), LitInt))))>>)))>>

\* val f = fn x => fn y => (x op y, x + 1.0): the operand of op is made Real later
ProgLateReal(op) ==
    <<Val(FALSE, PVariable("f"),
          Fn("x", Fn("y", Tuple(<<BinOp(op, Symbol("x"), Symbol("y")),
                                  BinOp("+", Symbol("x"), LitReal)>>))))>>

LateRealProgs == {ProgAddXY} \cup {ProgLateReal(op) : op \in ArithOps \cup CmpOps}

\* val f = fn x => (x x, x + 1)
ProgSelfAppAdd ==
    <<Val(FALSE, PVariable("f"),
          Fn("x", Tuple(<<App(Symbol("x"), Symbol("x")),
                          BinOp("+", Symbol("x"), LitInt)>>)))>>

\* val [rec] x = x
ProgValSelf(rec) == <<Val(rec, PVariable("x"), Symbol("x"))>>

\* val [rec] (f, g) = (fn a => g a, fn b => f b)
ProgMutual(rec) ==
    <<Val(rec, PTuple(<<PVariable("f"), PVariable("g")>>),
          Tuple(<<Fn("a", App(Symbol("g"), Symbol("a"))),
                  Fn("b", App(Symbol("f"), Symbol("b")))>>))>>

\* val h = fn f => fn x => (f x) + 1.0
ProgAppLater ==
    <<Val(FALSE, PVariable("h"),
          Fn("f", Fn("x", BinOp("+", App(Symbol("f"), Symbol("x")), LitReal))))>>

(* fun f p1 ... pn = p1 (1 when n = 0);  val v = f a ... a  (n arguments)  *)
ParamName(j) == "p" \o ToString(j)

RECURSIVE Apply(_, _, _)
Apply(f, a, n) == IF n = 0 THEN f ELSE App(Apply(f, a, n - 1), a)

ProgCurried(n, a) ==
    <<Fun("f", [j \in 1..n |-> PVariable(ParamName(j))],
          IF n = 0 THEN LitInt ELSE Symbol(ParamName(1))),
      Val(FALSE, PVariable("v"), Apply(Symbol("f"), Operand(a), n))>>

MaxArgs == 3

CurriedProgs == {ProgCurried(n, a) : n \in 0..MaxArgs, a \in {"int", "real"}}

\* val s = (1.0, 2)  val v = case s of (1, x) => x
ProgNestedConstant ==
    <<Val(FALSE, PVariable("s"), Tuple(<<LitReal, LitInt>>)),
      Val(FALSE, PVariable("v"),
          Case(Symbol("s"),
               <<Clause(PTuple(<<PConstant(1), PVariable("x")>>), Symbol("x"))>>))>>

\* val v = case (1, 2.0) of (A, x) => x
ProgNestedConstructor ==
    <<Val(FALSE, PVariable("v"),
          Case(Tuple(<<LitInt, LitReal>>),
               <<Clause(PTuple(<<PConstructor("A", None), PVariable("x")>>),
                        Symbol("x"))>>))>>

\* val v = case 1.0 of 1 => 2
ProgConstantReal ==
    <<Val(FALSE, PVariable("v"),
          Case(LitReal, <<Clause(PConstant(1), LitInt)>>))>>

\* val v = case B 3 of B 1 => 0 | A => 1 | _ => 2
ProgCasePayload ==
    <<Val(FALSE, PVariable("v"),
          Case(Constructor("B", LitInt),
               <<Clause(PConstructor("B", PConstant(1)), LitInt),
                 Clause(PConstructor("A", None), LitInt),
                 Clause(PWildcard, LitInt)>>))>>

\* val v = case P (1, 2.0) of P (1, y) => y
ProgCaseTuplePayload ==
    <<Val(FALSE, PVariable("v"),
          Case(Constructor("P", Tuple(<<LitInt, LitReal>>)),
               <<Clause(PConstructor("P", PTuple(<<PConstant(1), PVariable("y")>>)),
                        Symbol("y"))>>))>>

\* val v = A q      (A carries no payload, q is bound nowhere)
ProgFreeInConstructor(c) == <<Val(FALSE, PVariable("v"), Constructor(c, Symbol("q")))>>

\* val v = q
ProgFree == <<Val(FALSE, PVariable("v"), Symbol("q"))>>

\* val v = (1, fn x => q)
ProgFreeDeep ==
    <<Val(FALSE, PVariable("v"), Tuple(<<LitInt, Fn("x", Symbol("q"))>>))>>

\* datatype t = ...  val v = let val a = 1 in a + 1 end  val u = print v
ProgBinds ==
    <<Datatype("t"),
      Val(FALSE, PVariable("v"),
          Binds(<<Val(FALSE, PVariable("a"), LitInt)>>,
                BinOp("+", Symbol("a"), LitInt))),
      Val(FALSE, PVariable("u"), App(Symbol("print"), Symbol("v")))>>

\* val f = fn x => x  val y = x
ProgLeakFn ==
    <<Val(FALSE, PVariable("f"), Fn("x", Symbol("x"))),
      Val(FALSE, PVariable("y"), Symbol("x"))>>

\* val rec f = fn n => (fn f => n, f n)
ProgRecLeak ==
    <<Val(TRUE, PVariable("f"),
          Fn("n", Tuple(<<Fn("f", Symbol("n")),
                          App(Symbol("f"), Symbol("n"))>>)))>>

\* val v = let val a = 1 in a end  val u = a
ProgLeakBinds ==
    <<Val(FALSE, PVariable("v"),
          Binds(<<Val(FALSE, PVariable("a"), LitInt)>>, Symbol("a"))),
      Val(FALSE, PVariable("u"), Symbol("a"))>>

\* val v = case 1 of c => c  val u = c
ProgLeakCase ==
    <<Val(FALSE, PVariable("v"),
          Case(LitInt, <<Clause(PVariable("c"), Symbol("c"))>>)),
      Val(FALSE, PVariable("u"), Symbol("c"))>>

\* val x = 1.0  val f = fn x => x + 1  val y = x
ProgShadowFn ==
    <<Val(FALSE, PVariable("x"), LitReal),
      Val(FALSE, PVariable("f"), Fn("x", BinOp("+", Symbol("x"), LitInt))),
      Val(FALSE, PVariable("y"), Symbol("x"))>>

OtherProgs ==
    {ProgLeakBinds, ProgLeakCase, ProgShadowFn,
     ProgRecLeak, ProgSelfApp, ProgSelfAppAdd, ProgFact, ProgAppLater, ProgNestedConstant,
     ProgNestedConstructor, ProgConstantReal, ProgCasePayload, ProgCaseTuplePayload,
     ProgFree, ProgFreeDeep, ProgBinds, ProgLeakFn}
    \cup {ProgValSelf(rec) : rec \in BOOLEAN} \cup {ProgMutual(rec) : rec \in BOOLEAN}
    \cup {ProgFreeInConstructor(c) : c \in {"A", "B"}}
    \cup LateRealProgs \cup CurriedProgs

Programs == BinOpProgs \cup OtherProgs

Init ==
    /\ prog \in Programs
    /\ ast = <<>>
    /\ env = TyEnvNew.env
    /\ pool = TyEnvNew.pool
    /\ cache = TyEnvNew.cache
    /\ id = TyEnvNew.id
    /\ inserts = TyEnvNew.ins
    /\ stack = <<>>
    /\ pc = "new"
    /\ result = Pending
    /\ typed = <<>>
    /\ pats = <<>>
    /\ keys = <<>>

Next ==
    \/ TransStart
    \/ InferDatatype
    \/ InferVal
    \/ ValRest
    \/ InferFun
    \/ InferBinds
    \/ InferArith
    \/ ArithRest
    \/ InferCmp
    \/ CmpRest
    \/ InferDivMod
    \/ InferDivf
    \/ InferFn
    \/ InferApp
    \/ InferCase
    \/ InferClause
    \/ InferTuple
    \/ TupleRest
    \/ InferConstructor
    \/ ConstructorArg
    \/ InferSymbol
    \/ InferLiteral
    \/ Unify
    \/ Give
    \/ TypedAst

Spec == Init /\ [][Next]_vars

-----------------------------------------------------------------------------
(* The pool under arbitrary calls of unify and give: after new and init,   *)
(* with two fresh variables, any node of interest is unified with any  *)
(* other and given any type, whether or not the call succeeds.  A failed   *)
(* call leaves the unions its nested calls made; a call that never returns *)
(* ends the run.                                                           *)

MaxGives == 1

PoolStart == tyvar(tyvar(TyEnvInit(TyEnvNew)))

(* the nodes of the two fresh variables *)
VarNodes == {NewId(PoolStart.pool) - j : j \in {1, 2}}

(* the nodes calls are made on: those ty_int, ty_real and ty_bool return   *)
(* at the start, the type of print, the variables, and the nodes give has  *)
(* created                                                                 *)
CallNodes ==
    {ty_int(PoolStart), ty_real(PoolStart), ty_bool(PoolStart), PoolStart.env["print"]}
    \cup VarNodes
    \cup {i \in 1..Len(pool.parent) : i >= NewId(PoolStart.pool)}

GiveTypes ==
    {TInt, TReal, TDatatype("bool"), TDatatype("t")}
    \cup {TFun(a, b) : a \in VarNodes, b \in VarNodes}
    \cup {TTuple(<<a>>) : a \in VarNodes}
    \cup {TTuple(<<q[1], q[2]>>) : q \in {x \in VarNodes \X VarNodes : x[1] # x[2]}}

(* path compression, in full: every node linked to its representative and *)
(* carrying its class value.  Find and value_of are as before.             *)
Compress(p) ==
    [parent |-> [i \in DOMAIN p.parent |-> Find(p, i)],
     val    |-> [i \in DOMAIN p.val |-> value_of(p, i)]]

(* the outcome r of a call: the pool as the call left it *)
Called(r) ==
    /\ pool' = Compress(r.te.pool)
    /\ cache' = r.te.cache
    /\ id' = r.te.id
    /\ IF r.st = "overflow"
       THEN pc' = "done" /\ result' = StackOverflow
       ELSE UNCHANGED <<pc, result>>
    /\ UNCHANGED <<prog, ast, env, inserts, stack, typed, pats, keys>>

CallUnify ==
    /\ pc = "calls"
    /\ \E i \in CallNodes, j \in CallNodes : Called(unify(TE, i, j))

CallGive ==
    /\ pc = "calls"
    /\ Len(pool.parent) < NewId(PoolStart.pool) - 1 + MaxGives
    /\ \E i \in CallNodes, t \in GiveTypes : Called(give(TE, i, t))

PoolInit ==
    /\ prog = <<>>
    /\ ast = <<>>
    /\ env = PoolStart.env
    /\ pool = PoolStart.pool
    /\ cache = PoolStart.cache
    /\ id = PoolStart.id
    /\ inserts = PoolStart.ins
    /\ stack = <<>>
    /\ pc = "calls"
    /\ result = Pending
    /\ typed = <<>>
    /\ pats = <<>>
    /\ keys = <<>>

PoolNext ==
    \/ CallUnify
    \/ CallGive

PoolSpec == PoolInit /\ [][PoolNext]_vars

-----------------------------------------------------------------------------
(* hir::Pattern::match_key.  An i64 is its four 16-bit limbs, a u32 its    *)
(* two, most significant first, in two's complement: -1 is                 *)
(* <<65535, 65535, 65535, 65535>>, 2^32 is <<0, 1, 0, 0>>.                 *)

HirConstant(value)          == [k |-> "Constant", value |-> value]
HirChar(value)              == [k |-> "Char", value |-> value]
HirConstructor(descriminant) == [k |-> "Constructor", descriminant |-> descriminant]
HirVar(name)                == [k |-> "Var", name |-> name]
HirTuple(tuple)             == [k |-> "Tuple", tuple |-> tuple]

(* `as u32` of an i64: the low 32 bits *)
AsU32(value) == SubSeq(value, 3, 4)

match_key(pat) ==
    CASE pat.k = "Constant"    -> AsU32(pat.value)
      [] pat.k = "Char"        -> pat.value
      [] pat.k = "Constructor" -> pat.descriminant
      [] pat.k \in {"Tuple", "Var"} -> Panic

(* the limbs the values are made of: all bits clear, the lowest bit, all   *)
(* bits set                                                                *)
Limbs == {0, 1, 65535}

I64s == {<<a, b, c, d>> : a \in Limbs, b \in Limbs, c \in Limbs, d \in Limbs}
U32s == {<<c, d>> : c \in Limbs, d \in Limbs}

HirPatterns ==
    {HirConstant(v) : v \in I64s}
    \cup {HirChar(v) : v \in U32s}
    \cup {HirConstructor(v) : v \in U32s}
    \cup {HirVar("x"), HirTuple(<<"x", "y">>)}

MatchKey ==
    /\ pc = "patterns"
    /\ keys' = <<match_key(pats[1]), match_key(pats[2])>>
    /\ pc' = "keyed"
    /\ UNCHANGED <<prog, ast, env, pool, cache, id, inserts, stack, result, typed, pats>>

KeyInit ==
    /\ prog = <<>>
    /\ ast = <<>>
    /\ env = <<>>
    /\ pool = EmptyPool
    /\ cache = <<>>
    /\ id = 0
    /\ inserts = <<>>
    /\ stack = <<>>
    /\ pc = "patterns"
    /\ result = Pending
    /\ typed = <<>>
    /\ pats \in HirPatterns \X HirPatterns
    /\ keys = <<>>

KeyNext == MatchKey

KeySpec == KeyInit /\ [][KeyNext]_vars

-----------------------------------------------------------------------------
(* Properties.                                                             *)

Range(f) == {f[j] : j \in DOMAIN f}

Done     == pc = "done"
Returned == Done /\ result.kind \in {"Ok", "MisMatch", "FreeVar"}

(* the type of a ground operand of BinOpProg *)
GroundOf(o) == IF o \in {"int", "i"} THEN TInt ELSE TReal

(* C1: the Int default is applied only at reification: an operand of       *)
(* + - * or of a comparison that is an unconstrained variable is not fixed *)
(* to Int by the BinOp rule, so a later constraint that makes it Real      *)
(* still unifies and trans returns Ok, as for fn x => fn y => x + y + 1.0  *)
C1_IntDefaultOnlyAtReification ==
    (Done /\ prog \in LateRealProgs) => result = Success

(* C2: + - * on ground operands succeed exactly when both have the same    *)
(* type T in {Int, Real}, the node then has type T; div mod exactly when   *)
(* both are Int, the node Int; / exactly when both are Real, the node      *)
(* Real; every other combination returns MisMatch                          *)
C2_NodeType(op, l, r) ==
    IF op \in ArithOps THEN (IF GroundOf(l) = GroundOf(r) THEN GroundOf(l) ELSE None)
    ELSE IF op \in DivOps THEN (IF GroundOf(l) = TInt /\ GroundOf(r) = TInt
                                THEN TInt ELSE None)
    ELSE (IF GroundOf(l) = TReal /\ GroundOf(r) = TReal THEN TReal ELSE None)

C2_ArithmeticOnGroundOperands ==
    \A op \in ArithOps \cup DivOps \cup DivfOps, l \in Operands, r \in Operands :
        (Done /\ prog = BinOpProg(op, l, r)) =>
            IF C2_NodeType(op, l, r) = None
            THEN result.kind = "MisMatch"
            ELSE /\ result = Success
                 /\ typed[3].expr.ty = C2_NodeType(op, l, r)
                 /\ typed[3].expr.l.ty = GroundOf(l)
                 /\ typed[3].expr.r.ty = GroundOf(r)

C2_Witness ==
    /\ Done /\ result = Success
    /\ prog = BinOpProg("/", "r", "real")
    /\ typed[3].expr.ty = TReal

(* C3: + - * with the left operand grounded to T1 and the right one to a   *)
(* different T2 returns MisMatch{expected: T1, actual: T2}, never Ok       *)
C3_GroundedOperandsMisMatch ==
    \A op \in ArithOps, l \in Operands, r \in Operands :
        (Done /\ prog = BinOpProg(op, l, r) /\ GroundOf(l) # GroundOf(r)) =>
            result = MisMatch(GroundOf(l), GroundOf(r))

C3_Witness ==
    /\ Done /\ prog = BinOpProg("+", "real", "int")
    /\ result = MisMatch(TReal, TInt)

(* C4: for every input trans terminates and returns Ok or a TypeError,     *)
(* also when a variable is equated with a type that contains it            *)
C4_TransReturns == Done => Returned

(* C5: try_unify is Ok only for equal values (result: that value), a       *)
(* Variable on either side (result: the other value), two Funs, two Tuples *)
(* of equal length; for every other pair it returns MisMatch; and a node   *)
(* of a ground type keeps that type as the value of its class              *)
C5_Row(t1, t2, u) ==
    IF t1 = t2 THEN u.st = "ok" /\ u.x = t1
    ELSE IF t1.k = "Variable" THEN u.st = "ok" /\ u.x = t2
    ELSE IF t2.k = "Variable" THEN u.st = "ok" /\ u.x = t1
    ELSE IF t1.k = "Fun" /\ t2.k = "Fun" THEN u.st = "ok" => u.x.k = "Fun"
    ELSE IF t1.k = "Tuple" /\ t2.k = "Tuple" /\ Len(t1.ts) = Len(t2.ts)
         THEN u.st = "ok" => u.x.k = "Tuple"
    ELSE u.st = "err" /\ u.x.kind = "MisMatch"

C5_TryUnifyTable ==
    /\ \A r1 \in Roots(pool), r2 \in Roots(pool) :
          C5_Row(pool.val[r1], pool.val[r2],
                 try_unify(pool, pool.val[r1], pool.val[r2], {}))
    /\ \A i \in 1..Len(pool.val) :
          pool.val[i].k \in {"Int", "Real", "Datatype"} => value_of(pool, i) = pool.val[i]

(* the names a statement's or a pattern's bindings introduce *)
Names(bs) == {bs[j][1] : j \in 1..Len(bs)}

(* the slots of the references to `name` in expression e that no binder    *)
(* inside e captures                                                       *)
RECURSIVE FreeRefs(_, _)
RECURSIVE FreeRefsBinds(_, _, _)
FreeRefs(e, name) ==
    CASE e.k = "Symbol"      -> IF e.name = name THEN {e.ty} ELSE {}
      [] e.k \in {"Literal", "None"} -> {}
      [] e.k = "BinOp"       -> FreeRefs(e.l, name) \cup FreeRefs(e.r, name)
      [] e.k = "Fn"          -> IF e.param = name THEN {} ELSE FreeRefs(e.body, name)
      [] e.k = "App"         -> FreeRefs(e.fun, name) \cup FreeRefs(e.arg, name)
      [] e.k = "Tuple"       -> UNION {FreeRefs(e.tuple[j], name) : j \in 1..Len(e.tuple)}
      [] e.k = "Constructor" -> FreeRefs(e.arg, name)
      [] e.k = "Case"        ->
            FreeRefs(e.cond, name) \cup
            UNION {IF name \in Names(binds(e.clauses[j].pat)) THEN {}
                   ELSE FreeRefs(e.clauses[j].expr, name) : j \in 1..Len(e.clauses)}
      [] e.k = "Binds"       -> FreeRefsBinds(e.binds, e.ret, name)

FreeRefsBinds(stmts, ret, name) ==
    IF stmts = <<>> THEN FreeRefs(ret, name)
    ELSE LET st == Head(stmts)
         IN  CASE st.k = "Datatype" -> FreeRefsBinds(Tail(stmts), ret, name)
               [] st.k = "Val" ->
                    (IF st.rec /\ name \in Names(binds(st.pattern)) THEN {}
                     ELSE FreeRefs(st.expr, name))
                    \cup (IF name \in Names(binds(st.pattern)) THEN {}
                          ELSE FreeRefsBinds(Tail(stmts), ret, name))
               [] st.k = "Fun" ->
                    (IF name = st.name \/ name \in Names(BindsSeq(st.params)) THEN {}
                     ELSE FreeRefs(st.expr, name))
                    \cup (IF name = st.name THEN {}
                          ELSE FreeRefsBinds(Tail(stmts), ret, name))

(* the Val statements whose expr is being inferred: their continuation is  *)
(* on the stack, below the steps of expr                                   *)
ValsInProgress == {stack[j].x : j \in {i \in 2..Len(stack) : stack[i].op = "val_rest"}}

(* C6: Val with rec: during the whole inference of expr every name of      *)
(* pattern.binds() is bound to the pattern's slot, so a self-reference in  *)
(* expr resolves to the binder (fact : Int -> Int).  Without rec the names *)
(* are inserted only after expr, so val x = x yields FreeVar               *)
C6_ValBindingOrder ==
    /\ \A x \in ValsInProgress : \A b \in Range(binds(x.pattern)) :
          IF x.rec
          THEN (Top.op = "expr" /\ Top.x.k = "Symbol"
                /\ Top.x.ty \in FreeRefs(x.expr, b[1]))
               => (b[1] \in DOMAIN env /\ env[b[1]] = b[2])
          ELSE b \notin Range(inserts)
    /\ (Done /\ prog = ProgFact) =>
          (result = Success /\ typed[1].pattern.ty = TFun(TInt, TInt))
    /\ (Done /\ prog \in {ProgValSelf(FALSE), ProgMutual(FALSE)}) => result = FreeVar

PatternBinds(tree) ==
    UNION {CASE n.k = "Val"    -> Range(binds(n.pattern))
             [] n.k = "Fun"    -> Range(BindsSeq(n.params))
             [] n.k = "Clause" -> Range(binds(n.pat))
             [] OTHER          -> {} : n \in NodesOf(tree)}

Count(b) == Cardinality({j \in 1..Len(inserts) : inserts[j] = b})

(* C8: each (name, slot) pair of a pattern's binds() is inserted into the  *)
(* environment exactly once by its Val, Fun or Case clause                 *)
C8_BindsInsertedOnce ==
    (Done /\ result = Success) => \A b \in PatternBinds(ast) : Count(b) = 1

(* C9: after successful inference every Constant pattern has type Int and  *)
(* every Constructor pattern the type of its datatype, at any depth; so    *)
(* (1, x) against a scrutinee of type (Real, Int) is a MisMatch            *)
C9_NestedPatternsTyped ==
    /\ (Done /\ result = Success) =>
          \A n \in NodesOf(typed) :
              /\ n.k = "PConstant" => n.ty = TInt
              /\ n.k = "PConstructor" =>
                     n.ty = TDatatype(get_datatype_of_constructor(n.name))
    /\ (Done /\ prog = ProgNestedConstant) => result.kind = "MisMatch"

(* the names some pattern, Fn parameter or Fun name of the tree binds      *)
BoundNames(tree) ==
    UNION {CASE n.k = "PVariable" -> {n.name}
             [] n.k = "Fn"        -> {n.param}
             [] n.k = "Fun"       -> {n.name}
             [] OTHER             -> {} : n \in NodesOf(tree)}

HasUnboundRef(tree) ==
    \E n \in NodesOf(tree) :
        /\ n.k = "Symbol"
        /\ n.name \notin BoundNames(tree) \cup {"print"}
        /\ ~IsConstructor(n.name)

(* C10: trans never returns Ok for a tree with a reference, at any         *)
(* position, to a name bound nowhere                                       *)
C10_UnboundRefRejected ==
    (Done /\ HasUnboundRef(prog)) => result.kind \in {"FreeVar", "MisMatch"}


(* the slots of the Symbol references of the tree that no binding of the   *)
(* tree has in scope; print and the constructors are bound from the start *)
Unscoped(tree) ==
    UNION {FreeRefsBinds(tree, None, n.name) :
              n \in {m \in NodesOf(tree) :
                        /\ m.k = "Symbol"
                        /\ m.name # "print"
                        /\ ~IsConstructor(m.name)}}

(* C11: bindings are lexically scoped: when the inference of a Fn, of a    *)
(* Case clause or of a Binds has finished, the names it bound are no       *)
(* longer resolvable through that binding, so a reference outside the      *)
(* scope to a name with no outer binding finds no environment entry and    *)
(* yields FreeVar, and a reference to a shadowed outer name gets the outer *)
(* name's type again                                                       *)
C11_LexicalScoping ==
    /\ (stack # <<>> /\ Top.op = "expr" /\ Top.x.k = "Symbol"
        /\ Top.x.ty \in Unscoped(ast))
          => Top.x.name \notin DOMAIN env
    /\ (Done /\ prog \in {ProgLeakFn, ProgLeakBinds, ProgLeakCase}) => result = FreeVar
    /\ (Done /\ prog = ProgShadowFn) =>
          (result = Success /\ typed[3].pattern.ty = TReal)


(* the head constructor of a class value: the variant, with the arity of a *)
(* Tuple and the name of a Datatype                                        *)
HeadOf(t) ==
    CASE t.k = "Tuple"    -> <<"Tuple", Len(t.ts)>>
      [] t.k = "Datatype" -> <<"Datatype", t.name>>
      [] OTHER            -> <<t.k>>

HeadsKept ==
    \A i \in 1..Len(pool.parent) :
        value_of(pool, i).k # "Variable"
            => HeadOf(value_of(pool', i)) = HeadOf(value_of(pool, i))

CacheGround == \A t \in DOMAIN cache : value_of(pool, cache[t]) = t

(* C12: types are only ever refined: under any sequence of unify and give  *)
(* calls, successful or failed, a class value that is not a Variable keeps *)
(* its head constructor; and the nodes ty_int, ty_real, ty_bool return     *)
(* (the cache entries) always have the class values Int, Real and          *)
(* Datatype(bool), also after give has re-pointed the cache entry          *)
C12_TypesOnlyRefined == [][HeadsKept]_vars /\ []CacheGround

(* a give of a ground type has failed and left the cache entry on its new  *)
(* node, alone in its class, while another call refined a variable         *)
C12_Witness ==
    /\ pc = "calls"
    /\ \E t \in DOMAIN cache :
          /\ cache[t] >= NewId(PoolStart.pool)
          /\ \A i \in 1..Len(pool.parent) :
                i # cache[t] => Find(pool, i) # Find(pool, cache[t])
    /\ \E v \in VarNodes : value_of(pool, v).k # "Variable"


(* C13: match_key distinguishes distinct refutable patterns of the same    *)
(* kind: two Constant patterns with different values get different keys,   *)
(* and so do two Char patterns with different values and two Constructor   *)
(* patterns with different descriminants                                   *)
C13_MatchKeyDistinct ==
    (/\ pc = "keyed"
     /\ pats[1].k = pats[2].k
     /\ pats[1].k \in {"Constant", "Char", "Constructor"}
     /\ pats[1] # pats[2])
        => keys[1] # keys[2]

====
